---------------------------- MODULE Spec2Model ----------------------------
(***************************************************************************)
(* youtube-scheduler: the slot allocator (utils.generate_schedule_slots),  *)
(* the project file (storage.load_project / save_project), the transfer    *)
(* (youtube_api.upload_video) and the upload and cleanup commands          *)
(* (cli.upload, cli.cleanup) as a state machine.                           *)
(*                                                                         *)
(* Time is counted in seconds from 2026-01-01T00:00:00.  A UTC instant and *)
(* a local wall-clock reading are both integers on that scale; an aware    *)
(* datetime of the code is a wall-clock reading together with its zone.    *)
(***************************************************************************)
EXTENDS Integers, Sequences, FiniteSets, TLC

VARIABLES
    disk,       \* file name -> content of the file (Absent when it does not exist)
    dir,        \* the upload directory: video file name -> content identity
    remote,     \* the videos the remote side holds: one entry per completed transfer
    proc,       \* the running command (upload or cleanup): its position and its locals
    gen,        \* the frame of generate_schedule_slots: its position and its locals
    lastRead,   \* how the latest load_project of another process ended
    crashes,    \* how many times the upload process was interrupted
    prevCall,   \* what the previous call of generate_schedule_slots returned
    xfer        \* the frame of upload_video: its position and its locals

vars == <<disk, dir, remote, proc, gen, lastRead, crashes, prevCall, xfer>>

None == "None"

\* an optional set argument: left out (None), or a set object with its items
NoSet == [given |-> FALSE, items |-> {}]
SetOf(items) == [given |-> TRUE, items |-> items]

(***************************************************************************)
(* Calendar and zones (datetime, zoneinfo as the code uses them).          *)
(***************************************************************************)
SecondsPerDay == 86400
SecondsPerHour == 3600
SecondsPerMinute == 60
EpochYear == 2026
DaysPerYear == 365

\* days before the first of each month of a common year
CumDays == <<0, 31, 59, 90, 120, 151, 181, 212, 243, 273, 304, 334, 365>>

At(dayOfYear, hh, mm) == dayOfYear * SecondsPerDay + hh * SecondsPerHour + mm * SecondsPerMinute

\* America/New_York in 2026: EST until 8 March 07:00Z, EDT until 1 November 06:00Z.
EST == -5 * SecondsPerHour
EDT == -4 * SecondsPerHour
SpringForwardUtc == At(66, 7, 0)
FallBackUtc == At(304, 6, 0)
\* the same two transitions on the local clock, as a reading with fold = 0 resolves them:
\* a reading inside the gap (02:00-03:00) keeps the offset before it, an ambiguous
\* reading (01:00-02:00) is its first occurrence
SpringForwardWall == At(66, 3, 0)
FallBackWall == At(304, 2, 0)

KnownZones == {"UTC", "America/New_York"}

\* ZoneInfo(key).utcoffset of a UTC instant (what astimezone applies)
UtcOffsetAt(u, tz) ==
    IF tz = "America/New_York"
    THEN IF u >= SpringForwardUtc /\ u < FallBackUtc THEN EDT ELSE EST
    ELSE 0

\* ZoneInfo(key).utcoffset of a local reading with fold = 0 (every datetime the
\* allocator builds or gets from + has fold = 0)
UtcOffsetOfWall(w, tz) ==
    IF tz = "America/New_York"
    THEN IF w >= SpringForwardWall /\ w < FallBackWall THEN EDT ELSE EST
    ELSE 0

\* dt.astimezone(tz): the local reading of an instant
AsTimezone(u, tz) == u + UtcOffsetAt(u, tz)

\* dt.astimezone(UTC) of a local reading
ToUtc(w, tz) == w - UtcOffsetOfWall(w, tz)

MonthOf(doy) == CHOOSE m \in 1..12 : CumDays[m] <= doy /\ doy < CumDays[m + 1]

\* isoformat() of a UTC datetime with "+00:00" replaced by "Z": the text
\* YYYY-MM-DDTHH:MM:SSZ, kept as its six numeric fields
IsoFormatZ(u) ==
    LET day == u \div SecondsPerDay
        sod == u % SecondsPerDay
        doy == day % DaysPerYear
        m == MonthOf(doy)
    IN <<EpochYear + (day \div DaysPerYear), m, doy - CumDays[m] + 1,
         sod \div SecondsPerHour, (sod % SecondsPerHour) \div SecondsPerMinute,
         sod % SecondsPerMinute>>

\* to_rfc3339_utc of the aware datetime (w, tz)
to_rfc3339_utc(w, tz) == IsoFormatZ(ToUtc(w, tz))

\* parse_hhmm: the text split at ":" is the sequence of its integer fields
parse_hhmm(value) ==
    IF Len(value) # 2 THEN [ok |-> FALSE, hour |-> 0, minute |-> 0]
    ELSE IF value[1] < 0 \/ value[1] > 23 \/ value[2] < 0 \/ value[2] > 59
         THEN [ok |-> FALSE, hour |-> 0, minute |-> 0]
         ELSE [ok |-> TRUE, hour |-> value[1], minute |-> value[2]]

\* order of two timestamps of the YYYY-MM-DDTHH:MM:SSZ form (their text order)
RECURSIVE RfcLessFrom(_, _, _)
RfcLessFrom(a, b, i) ==
    IF i > Len(a) THEN FALSE
    ELSE IF a[i] # b[i] THEN a[i] < b[i]
    ELSE RfcLessFrom(a, b, i + 1)

RfcLess(a, b) == RfcLessFrom(a, b, 1)

SeqToSet(s) == {s[i] : i \in 1..Len(s)}

(***************************************************************************)
(* generate_schedule_slots, one action per step of its control flow.       *)
(***************************************************************************)
GenIdle ==
    [pc |-> "idle", start_local_date |-> 0, timezone |-> "UTC", videos_per_day |-> 1,
     day_start_hhmm |-> <<0, 0>>, count |-> 0, arg |-> NoSet, caller |-> {},
     aliased |-> FALSE, reserved_rfc3339 |-> {}, interval |-> 0, local_start |-> 0,
     cursor |-> 0, out |-> <<>>, safety |-> 0, error |-> None]

\* no call of generate_schedule_slots made before this one
NoCall ==
    [made |-> FALSE, pc |-> "idle", out |-> <<>>, caller |-> {}, reserved_rfc3339 |-> {},
     error |-> None]

\* the frame at the call: the arguments bound, nothing run yet.  `reserved` is the
\* caller's set (None when the argument is left out)
GenCall(start, tz, vpd, hhmm, n, reserved) ==
    [GenIdle EXCEPT !.pc = "enter", !.start_local_date = start, !.timezone = tz,
                    !.videos_per_day = vpd, !.day_start_hhmm = hhmm, !.count = n,
                    !.arg = reserved,
                    !.caller = reserved.items]

\* `set()` in `reserved_rfc3339 or set()`: a new empty set for this call.
\* SharedDefaultSet is the slip of one set object kept from call to call.
SharedDefaultSet == prevCall.reserved_rfc3339
FreshSet == {}

\* `reserved_rfc3339 or set()`: the caller's object when it is truthy
ReservedIsCallers(reserved) == reserved.given /\ reserved.items # {}

\* timedelta(seconds=int(24 * 3600 / videos_per_day))
Interval(vpd) == SecondsPerDay \div vpd

\* base_day.replace(hour, minute, second=0, microsecond=0): the local reading
BaseCursor(local_start, t) ==
    (local_start \div SecondsPerDay) * SecondsPerDay
        + t.hour * SecondsPerHour + t.minute * SecondsPerMinute

\* CursorBefore is the slip of `<` for `<=`.
CursorBefore(cursor, local_start) == cursor < local_start
\* `cursor <= local_start`: both carry the same tzinfo object, so Python compares
\* the two local readings and never the instants
CursorNotAfter(cursor, local_start) == cursor <= local_start

\* SlotAlwaysFree is the slip of leaving the membership test out.
SlotAlwaysFree(rfc3339, reserved) == TRUE
\* `rfc3339 not in reserved_rfc3339`
SlotFree(rfc3339, reserved) == rfc3339 \notin reserved

\* SafetyReached is the slip of `>=` for `>`.
SafetyReached(safety, n) == safety >= n * 20
\* `safety > count * 20`
SafetyFactor == 20
SafetyExceeded(safety, n) == safety > n * SafetyFactor

\* the list `out` a call starts with
InitOut == <<>>

\* NegativeCount is the slip of `<` for `<=`.
NegativeCount(n) == n < 0
\* `count <= 0`: nothing to allocate
NothingAsked(n) == n <= 0

\* lines 62-82: the argument checks, then the cursor before the first loop
GenEnter ==
    /\ gen.pc = "enter"
    /\ gen' =
        IF gen.videos_per_day <= 0
        THEN [gen EXCEPT !.pc = "raised", !.error = "ValueError"]
        ELSE IF NothingAsked(gen.count)
        THEN [gen EXCEPT !.pc = "done", !.out = <<>>]
        ELSE IF gen.timezone \notin KnownZones
        THEN [gen EXCEPT !.pc = "raised", !.error = "ZoneInfoNotFoundError"]
        ELSE IF ~parse_hhmm(gen.day_start_hhmm).ok
        THEN [gen EXCEPT !.pc = "raised", !.error = "ValueError"]
        ELSE LET ls == AsTimezone(gen.start_local_date, gen.timezone)
                 c == BaseCursor(ls, parse_hhmm(gen.day_start_hhmm))
             IN [gen EXCEPT !.aliased = ReservedIsCallers(gen.arg),
                            !.reserved_rfc3339 =
                                IF ReservedIsCallers(gen.arg) THEN gen.arg.items ELSE FreshSet,
                            !.interval = Interval(gen.videos_per_day),
                            !.local_start = ls,
                            !.cursor = c,
                            !.out = InitOut,
                            !.safety = 0,
                            !.pc = IF CursorNotAfter(c, ls) THEN "advance" ELSE "loop"]
    /\ UNCHANGED <<disk, dir, remote, proc, lastRead, crashes, prevCall, xfer>>

\* lines 81-82: one turn of `while cursor <= local_start: cursor += interval`
GenAdvance ==
    /\ gen.pc = "advance"
    /\ gen' =
        IF CursorNotAfter(gen.cursor, gen.local_start)
        THEN [gen EXCEPT !.cursor = gen.cursor + gen.interval]
        ELSE [gen EXCEPT !.pc = "loop"]
    /\ UNCHANGED <<disk, dir, remote, proc, lastRead, crashes, prevCall, xfer>>

\* lines 86-95: one turn of `while len(out) < count`, or the return after it
GenLoop ==
    /\ gen.pc = "loop"
    /\ gen' =
        IF Len(gen.out) < gen.count
        THEN IF SafetyExceeded(gen.safety + 1, gen.count)
             THEN [gen EXCEPT !.safety = gen.safety + 1, !.pc = "raised",
                              !.error = "RuntimeError"]
             ELSE LET rfc3339 == to_rfc3339_utc(gen.cursor, gen.timezone)
                      free == SlotFree(rfc3339, gen.reserved_rfc3339)
                  IN [gen EXCEPT !.safety = gen.safety + 1,
                                 !.out = IF free THEN Append(gen.out, rfc3339) ELSE gen.out,
                                 !.reserved_rfc3339 =
                                     IF free THEN gen.reserved_rfc3339 \cup {rfc3339}
                                     ELSE gen.reserved_rfc3339,
                                 !.caller =
                                     IF free /\ gen.aliased THEN gen.caller \cup {rfc3339}
                                     ELSE gen.caller,
                                 !.cursor = gen.cursor + gen.interval]
        ELSE [gen EXCEPT !.pc = "done"]
    /\ UNCHANGED <<disk, dir, remote, proc, lastRead, crashes, prevCall, xfer>>

(***************************************************************************)
(* The project file: models.Project / UploadedVideo and storage.            *)
(***************************************************************************)
\* project_path(name): the .json file of the project, as <<stem, suffix>>
ProjectPath == <<"demo", "json">>

\* SamePath is the slip of writing straight to the project file.
SamePath(path) == path
\* path.with_suffix(".json.tmp")
TmpPath(path) == <<path[1], "json.tmp">>

\* Project(name): the fields the upload command reads or writes
NewProject ==
    [uploaded |-> <<>>, reserved_publish_times |-> <<>>, timezone |-> "UTC",
     videos_per_day |-> 1, day_start_time |-> <<9, 0>>]

\* Project.to_json: the document save_project writes
ToJson(p) ==
    [uploaded |-> p.uploaded, reserved_publish_times |-> p.reserved_publish_times,
     timezone |-> p.timezone, videos_per_day |-> p.videos_per_day,
     day_start_time |-> p.day_start_time]

\* Project.from_json: absent or falsy preferences fall back to the defaults
FromJson(data) ==
    [uploaded |-> data.uploaded, reserved_publish_times |-> data.reserved_publish_times,
     timezone |-> data.timezone,
     videos_per_day |-> IF data.videos_per_day = 0 THEN 1 ELSE data.videos_per_day,
     day_start_time |-> data.day_start_time]

\* a file of the data directory: missing, partly written, or whole
NoFile == [exists |-> FALSE, complete |-> FALSE, data |-> ToJson(NewProject)]
Partial(data) == [exists |-> TRUE, complete |-> FALSE, data |-> data]
Whole(data) == [exists |-> TRUE, complete |-> TRUE, data |-> data]

\* load_project(name): how it ends on the file as it is
load_project(file) ==
    IF ~file.exists THEN "FileNotFoundError"
    ELSE IF ~file.complete THEN "JSONDecodeError"
    ELSE "ok"

\* UploadedVideo(...), created_at left out (nothing reads it)
UploadedVideo(file_name, sha, size, video_id, publish_at) ==
    [file_name |-> file_name, file_sha256 |-> sha, file_size |-> size,
     uploaded_video_id |-> video_id, scheduled_publish_at |-> publish_at]

\* SameSizeUploaded is the slip of comparing the size alone.
SameSizeUploaded(p, sha256, size) ==
    \E i \in 1..Len(p.uploaded) : p.uploaded[i].file_size = size
\* _video_already_uploaded(project, sha256, size)
video_already_uploaded(p, sha256, size) ==
    \E i \in 1..Len(p.uploaded) :
        p.uploaded[i].file_sha256 = sha256 /\ p.uploaded[i].file_size = size

\* NothingReserved is the slip of starting every run from an empty reserved set.
NothingReserved(p) == {}
\* set(p.reserved_publish_times)
ReservedSet(p) == SeqToSet(p.reserved_publish_times)

(***************************************************************************)
(* The upload directory and the remote side.                               *)
(***************************************************************************)
\* the video files a directory may hold, in sorted order of their names
FileNames == <<"a.mp4", "b.mp4">>
\* what sha256_file and stat().st_size give for the contents a file may have
Contents == {[sha |-> "d1", size |-> 100], [sha |-> "d2", size |-> 100]}
NoContent == [sha |-> "", size |-> 0]

\* sorted([f for f in upload_dir.iterdir() if ...]): the names present, in order
Files(d) == SelectSeq(FileNames, LAMBDA n : d[n] # NoContent)

\* AllFiles is the slip of taking every scanned file as new.
AllFiles(p, d) == Files(d)
\* lines 329-337: the files whose (sha, size) no record of the project has
NewFiles(p, d) ==
    SelectSeq(Files(d), LAMBDA n : ~video_already_uploaded(p, d[n].sha, d[n].size))

DryRunId == <<"DRY_RUN">>
\* response["id"] of a completed insert: the remote side numbers its videos
RemoteId(n) == <<"yt", n>>

(***************************************************************************)
(* youtube_api.upload_video: one action per turn of its chunk loop.        *)
(***************************************************************************)
DefaultMaxRetries == 8
DefaultBaseDelay == 1
MaxDelay == 60

QuotaReason == "uploadLimitExceeded"
\* what next_chunk may raise: an HttpError with its status and the reason its text
\* names, or any other exception with the text it carries
HttpStatuses == {400, 403, 429, 500, 501, 503}
Reasons == {QuotaReason, "other"}
NoError == [raised |-> FALSE, http |-> FALSE, status |-> 0, text |-> ""]
HttpError(status, reason) == [raised |-> TRUE, http |-> TRUE, status |-> status, text |-> reason]
OtherError(text) == [raised |-> TRUE, http |-> FALSE, status |-> 0, text |-> text]
ChunkErrors ==
    {HttpError(c, r) : c \in HttpStatuses, r \in Reasons} \cup {OtherError(t) : t \in Reasons}

\* AnyStatusRetriable is the slip of retrying every HttpError.
AnyStatusRetriable(code) == TRUE
\* `code in {429, 500, 502, 503, 504}`
Retriable(code) == code \in {429, 500, 502, 503, 504}

\* UsedUpOneLate is the slip of giving up one failure too late.
UsedUpOneLate(attempt, max_retries) == attempt > max_retries + 1
\* `attempt > max_retries`
RetriesUsedUp(attempt, max_retries) == attempt > max_retries

\* UncappedBackoff is the slip of leaving `min(..., 60.0)` out.
UncappedBackoff(base_delay_s, attempt) == base_delay_s * (2 ^ (attempt - 1))
\* min(base_delay_s * (2 ** (attempt - 1)), 60.0): the delay without its jitter
Backoff(base_delay_s, attempt) ==
    IF base_delay_s * (2 ^ (attempt - 1)) < MaxDelay
    THEN base_delay_s * (2 ^ (attempt - 1)) ELSE MaxDelay

\* random.random(): a float of [0.0, 1.0), kept in thousandths of a second
JitterScale == 1000
Jitter == 0..(JitterScale - 1)
\* time.sleep(delay): the seconds of the backoff and the jitter added to them
Sleep(backoff, jitter) == [backoff |-> backoff, jitter |-> jitter]

\* the frame of upload_video.  `faults` is what the remote side may answer with
\* during the call, `jitters` what random.random() may draw during it, `sleeps`
\* the delays slept so far, `error` the exception next_chunk raised last (the one
\* that left the call when pc is "raised")
XferIdle ==
    [pc |-> "idle", sha |-> "", size |-> 0, publish_at |-> <<>>,
     max_retries |-> DefaultMaxRetries, base_delay_s |-> DefaultBaseDelay, faults |-> {},
     jitters |-> {}, attempt |-> 0, sleeps |-> <<>>, error |-> NoError, response |-> <<>>]

\* the frame at the call, before the first next_chunk (lines 97-118)
XferCall(content, publish_at, max_retries, base_delay_s, faults, jitters) ==
    [XferIdle EXCEPT !.pc = "request", !.sha = content.sha, !.size = content.size,
                     !.publish_at = publish_at, !.max_retries = max_retries,
                     !.base_delay_s = base_delay_s, !.faults = faults,
                     !.jitters = jitters]

\* lines 119-131: one turn of `while response is None`.  next_chunk finishes the
\* video (the call returns its id), or answers that the upload is not finished
\* (nothing of the frame changes), or raises: an exception that is no HttpError
\* leaves the call at once; an HttpError is counted, and leaves the call unless it
\* is retriable with retries left, in which case the delay and a jitter drawn
\* for it are slept
XferChunk ==
    /\ xfer.pc = "request"
    /\ \/ /\ xfer' = [xfer EXCEPT !.pc = "returned", !.response = RemoteId(Len(remote) + 1)]
          /\ remote' = Append(remote, [file_sha256 |-> xfer.sha, file_size |-> xfer.size,
                                       publishAt |-> xfer.publish_at,
                                       id |-> RemoteId(Len(remote) + 1)])
       \/ /\ UNCHANGED <<xfer, remote>>
       \/ /\ \E e \in xfer.faults, j \in xfer.jitters :
                xfer' =
                    IF ~e.http
                    THEN [xfer EXCEPT !.error = e, !.pc = "raised"]
                    ELSE IF ~Retriable(e.status)
                            \/ RetriesUsedUp(xfer.attempt + 1, xfer.max_retries)
                    THEN [xfer EXCEPT !.attempt = xfer.attempt + 1, !.error = e,
                                      !.pc = "raised"]
                    ELSE [xfer EXCEPT !.attempt = xfer.attempt + 1, !.error = e,
                                      !.sleeps = Append(xfer.sleeps,
                                                        Sleep(Backoff(xfer.base_delay_s,
                                                                      xfer.attempt + 1),
                                                              j))]
          /\ UNCHANGED remote
    /\ UNCHANGED <<disk, dir, proc, gen, lastRead, crashes, prevCall>>

(***************************************************************************)
(* cli.upload                                                              *)
(***************************************************************************)
MaxCrashes == 1

RunIdle ==
    [pc |-> "idle", exit |-> None, dry_run |-> FALSE, p |-> NewProject,
     new_files |-> <<>>, hashes |-> [n \in {} |-> NoContent], slots |-> <<>>, idx |-> 0,
     video_id |-> DryRunId, save_prev |-> NoFile, to_delete |-> {}]

RunEnded(code) == [RunIdle EXCEPT !.pc = "ended", !.exit = code]

\* the answers a run may be given to its scheduling prompts: once a day from 07:20
\* UTC; 36 times a day from 00:20 New York, whose 40-minute stride crosses the hour
\* the New York clock skips on 8 March (and proposes 07:20Z first, as the daily
\* schedule does); and a cadence of 0, which generate_schedule_slots refuses
RunAnswers ==
    {[videos_per_day |-> 1, timezone |-> "UTC", day_start_time |-> <<7, 20>>],
     [videos_per_day |-> 36, timezone |-> "America/New_York", day_start_time |-> <<0, 20>>],
     [videos_per_day |-> 0, timezone |-> "UTC", day_start_time |-> <<7, 20>>]}
\* what the remote side may answer with during a run: a server error, the
\* publishing cap as YouTube reports it (400) and under a too-many-requests
\* status, and two exceptions that are no HttpError, one of them with the cap's
\* name in its text
RunFaults ==
    {HttpError(503, "other"), HttpError(400, QuotaReason), HttpError(429, QuotaReason),
     OtherError("other"), OtherError(QuotaReason)}
\* what random.random() draws during a run: the delays decide nothing in a run
RunJitters == {0}
\* datetime.now() of a run: 8 March 06:50Z, 01:50 in New York
RunStarts == {At(66, 6, 50)}

Init ==
    /\ disk = [f \in {ProjectPath, TmpPath(ProjectPath)} |->
                  IF f = ProjectPath THEN Whole(ToJson(NewProject)) ELSE NoFile]
    /\ dir \in [SeqToSet(FileNames) -> Contents \cup {NoContent}]
    /\ remote = <<>>
    /\ proc = RunIdle
    /\ gen = GenIdle
    /\ lastRead = "unread"
    /\ crashes = 0
    /\ prevCall = NoCall
    /\ xfer = XferIdle

\* the user puts one more video file into the directory, between runs, under a
\* name no record of the project has
PutFile ==
    /\ proc.pc \in {"idle", "ended"}
    /\ \E n \in SeqToSet(FileNames), c \in Contents :
        /\ dir[n] = NoContent
        /\ \A i \in 1..Len(disk[ProjectPath].data.uploaded) :
              disk[ProjectPath].data.uploaded[i].file_name # n
        /\ dir' = [dir EXCEPT ![n] = c]
    /\ UNCHANGED <<disk, remote, proc, gen, lastRead, crashes, prevCall, xfer>>

\* lines 310-337: load the project, scan the directory (no video file: exit 0),
\* hash every file and keep the new ones
StartRun ==
    /\ proc.pc \in {"idle", "ended"}
    /\ load_project(disk[ProjectPath]) = "ok"
    /\ LET p == FromJson(disk[ProjectPath].data)
       IN proc' = IF Len(Files(dir)) = 0
                  THEN RunEnded("0")
                  ELSE [RunIdle EXCEPT !.pc = "scanned", !.p = p,
                                       !.new_files = NewFiles(p, dir),
                                       !.hashes = [n \in SeqToSet(FileNames) |-> dir[n]]]
    /\ UNCHANGED <<disk, dir, remote, gen, lastRead, crashes, prevCall, xfer>>

\* lines 339-341: nothing new to upload, exit 0
NothingNew ==
    /\ proc.pc = "scanned"
    /\ Len(proc.new_files) = 0
    /\ proc' = RunEnded("0")
    /\ UNCHANGED <<disk, dir, remote, gen, lastRead, crashes, prevCall, xfer>>

\* lines 345-377: ask the scheduling preferences and call generate_schedule_slots
\* for the whole batch (the run was started with or without --dry-run)
Allocate ==
    /\ proc.pc = "scanned"
    /\ Len(proc.new_files) > 0
    /\ \E dry \in BOOLEAN, ans \in RunAnswers, start \in RunStarts :
        /\ proc' = [proc EXCEPT !.pc = "alloc", !.dry_run = dry]
        /\ gen' = GenCall(start, ans.timezone, ans.videos_per_day,
                          ans.day_start_time, Len(proc.new_files),
                          SetOf(ReservedSet(proc.p)))
    /\ UNCHANGED <<disk, dir, remote, lastRead, crashes, prevCall, xfer>>

\* generate_schedule_slots raised: the command ends with the error
AllocRaised ==
    /\ proc.pc = "alloc"
    /\ gen.pc = "raised"
    /\ proc' = RunEnded("raise")
    /\ gen' = GenIdle
    /\ UNCHANGED <<disk, dir, remote, lastRead, crashes, prevCall, xfer>>

\* lines 377-429: the slots returned; the preferences go into the project and
\* save_project(p) starts
AllocReturned ==
    /\ proc.pc = "alloc"
    /\ gen.pc = "done"
    /\ proc' = [proc EXCEPT !.slots = gen.out,
                            !.p = [proc.p EXCEPT !.videos_per_day = gen.videos_per_day,
                                                 !.timezone = gen.timezone,
                                                 !.day_start_time = gen.day_start_hhmm],
                            !.idx = 0,
                            !.save_prev = disk[ProjectPath],
                            !.pc = "save_write"]
    /\ gen' = GenIdle
    /\ UNCHANGED <<disk, dir, remote, lastRead, crashes, prevCall, xfer>>

\* save_project, tmp.write_text(...): the temporary file is created and filled
SaveWrite ==
    /\ proc.pc = "save_write"
    /\ disk' = [disk EXCEPT ![TmpPath(ProjectPath)] = Partial(ToJson(proc.p))]
    /\ proc' = [proc EXCEPT !.pc = "save_flush"]
    /\ UNCHANGED <<dir, remote, gen, lastRead, crashes, prevCall, xfer>>

\* save_project, write_text returns: the temporary file holds the whole document
SaveFlush ==
    /\ proc.pc = "save_flush"
    /\ disk' = [disk EXCEPT ![TmpPath(ProjectPath)] = Whole(ToJson(proc.p))]
    /\ proc' = [proc EXCEPT !.pc = "save_replace"]
    /\ UNCHANGED <<dir, remote, gen, lastRead, crashes, prevCall, xfer>>

\* SaveSkipped is the slip of a save that never reaches the project file.
SaveSkipped ==
    /\ proc.pc = "save_replace"
    /\ proc' = IF proc.idx >= Len(proc.new_files) THEN RunEnded("0")
               ELSE [proc EXCEPT !.pc = "item"]
    /\ UNCHANGED <<disk, dir, remote, gen, lastRead, crashes, prevCall, xfer>>

\* save_project, tmp.replace(path): the rename; then the loop over new_files goes on,
\* or ends after its last item (line 499)
SaveReplace ==
    /\ proc.pc = "save_replace"
    /\ disk' = IF TmpPath(ProjectPath) = ProjectPath THEN disk
               ELSE [disk EXCEPT ![ProjectPath] = disk[TmpPath(ProjectPath)],
                                 ![TmpPath(ProjectPath)] = NoFile]
    /\ proc' = IF proc.idx >= Len(proc.new_files) THEN RunEnded("0")
               ELSE [proc EXCEPT !.pc = "item"]
    /\ UNCHANGED <<dir, remote, gen, lastRead, crashes, prevCall, xfer>>

\* lines 454-456: a dry run uploads nothing and takes the id "DRY_RUN"
ItemDryRun ==
    /\ proc.pc = "item"
    /\ proc.dry_run
    /\ proc' = [proc EXCEPT !.video_id = DryRunId, !.pc = "append"]
    /\ UNCHANGED <<disk, dir, remote, gen, lastRead, crashes, prevCall, xfer>>

\* lines 458-470: upload_video is called for the file with its slot, retry
\* parameters at their defaults
CallUpload ==
    /\ proc.pc = "item"
    /\ ~proc.dry_run
    /\ xfer' = XferCall(proc.hashes[proc.new_files[proc.idx + 1]],
                        proc.slots[proc.idx + 1], DefaultMaxRetries, DefaultBaseDelay,
                        RunFaults, RunJitters)
    /\ proc' = [proc EXCEPT !.pc = "upload"]
    /\ UNCHANGED <<disk, dir, remote, gen, lastRead, crashes, prevCall>>

\* lines 460-470, 482: upload_video returned the id of the video the remote side now holds
TransferOk ==
    /\ proc.pc = "upload"
    /\ xfer.pc = "returned"
    /\ proc' = [proc EXCEPT !.video_id = xfer.response, !.pc = "append"]
    /\ xfer' = XferIdle
    /\ UNCHANGED <<disk, dir, remote, gen, lastRead, crashes, prevCall>>

\* NeverQuota is the slip of leaving the quota test out.
NeverQuota(e) == FALSE
\* `"uploadLimitExceeded" in str(e)`, for whatever exception e is
MentionsQuota(e) == e.text = QuotaReason

\* lines 471-480: upload_video raised an error naming uploadLimitExceeded: exit code 3
TransferQuota ==
    /\ proc.pc = "upload"
    /\ xfer.pc = "raised"
    /\ MentionsQuota(xfer.error)
    /\ proc' = RunEnded("3")
    /\ xfer' = XferIdle
    /\ UNCHANGED <<disk, dir, remote, gen, lastRead, crashes, prevCall>>

\* line 481: upload_video raised any other error, which the command re-raises
TransferFailed ==
    /\ proc.pc = "upload"
    /\ xfer.pc = "raised"
    /\ ~MentionsQuota(xfer.error)
    /\ proc' = RunEnded("raise")
    /\ xfer' = XferIdle
    /\ UNCHANGED <<disk, dir, remote, gen, lastRead, crashes, prevCall>>

\* RecordFirst is the slip of putting the new record at the head of the list.
RecordFirst(uploaded, rec) == <<rec>> \o uploaded
\* p.uploaded.append(UploadedVideo(...))
AddRecord(uploaded, rec) == Append(uploaded, rec)

\* SlotForgotten is the slip of leaving the slot of a record out of the list.
SlotForgotten(reserved, publish_at) == reserved
\* p.reserved_publish_times.append(publish_at)
AddReserved(reserved, publish_at) == Append(reserved, publish_at)

\* lines 486-497: the record and its slot are appended and save_project(p) starts
AppendRecord ==
    /\ proc.pc = "append"
    /\ LET f == proc.new_files[proc.idx + 1]
           publish_at == proc.slots[proc.idx + 1]
           rec == UploadedVideo(f, proc.hashes[f].sha, proc.hashes[f].size,
                                proc.video_id, publish_at)
       IN proc' = [proc EXCEPT !.p.uploaded = AddRecord(proc.p.uploaded, rec),
                               !.p.reserved_publish_times =
                                   AddReserved(proc.p.reserved_publish_times, publish_at),
                               !.idx = proc.idx + 1,
                               !.save_prev = disk[ProjectPath],
                               !.pc = "save_write"]
    /\ UNCHANGED <<disk, dir, remote, gen, lastRead, crashes, prevCall, xfer>>

(***************************************************************************)
(* cli.cleanup                                                             *)
(***************************************************************************)
\* lines 239-263: the files of the directory whose name is the file_name of a record
\* and whose (sha256, size) is that of a record of that name
ToDelete(p, d) ==
    {n \in SeqToSet(FileNames) :
        /\ d[n] # NoContent
        /\ \E i \in 1..Len(p.uploaded) :
            /\ p.uploaded[i].file_name = n
            /\ p.uploaded[i].file_sha256 = d[n].sha
            /\ p.uploaded[i].file_size = d[n].size}

\* lines 228-286: load the project, list the files that match a record, and stop
\* when there is none, on --dry-run, or when the user does not confirm
CleanupScan ==
    /\ proc.pc \in {"idle", "ended"}
    /\ load_project(disk[ProjectPath]) = "ok"
    /\ \E dry \in BOOLEAN, ok \in BOOLEAN :
        LET p == FromJson(disk[ProjectPath].data)
        IN proc' = IF ToDelete(p, dir) = {} \/ dry \/ ~ok
                   THEN RunEnded("0")
                   ELSE [RunIdle EXCEPT !.pc = "cleanup_delete", !.dry_run = dry, !.p = p,
                                        !.to_delete = ToDelete(p, dir)]
    /\ UNCHANGED <<disk, dir, remote, gen, lastRead, crashes, prevCall, xfer>>

\* lines 288-296: fp.unlink() for every listed file; an unlink that fails is
\* reported and passed over
CleanupDelete ==
    /\ proc.pc = "cleanup_delete"
    /\ \E gone \in SUBSET proc.to_delete :
        dir' = [n \in SeqToSet(FileNames) |-> IF n \in gone THEN NoContent ELSE dir[n]]
    /\ proc' = RunEnded("0")
    /\ UNCHANGED <<disk, remote, gen, lastRead, crashes, prevCall, xfer>>

\* the process is interrupted between two steps: its memory is gone, the files stay
Crash ==
    /\ proc.pc \notin {"idle", "ended"}
    /\ crashes < MaxCrashes
    /\ crashes' = crashes + 1
    /\ proc' = RunIdle
    /\ gen' = GenIdle
    /\ xfer' = XferIdle
    /\ UNCHANGED <<disk, dir, remote, lastRead, prevCall>>

\* load_project in another process (cleanup, a second terminal), at any moment
ReaderLoad ==
    /\ lastRead' = load_project(disk[ProjectPath])
    /\ UNCHANGED <<disk, dir, remote, proc, gen, crashes, prevCall, xfer>>

Next ==
    \/ PutFile
    \/ StartRun
    \/ NothingNew
    \/ Allocate
    \/ GenEnter
    \/ GenAdvance
    \/ GenLoop
    \/ AllocRaised
    \/ AllocReturned
    \/ SaveWrite
    \/ SaveFlush
    \/ SaveReplace
    \/ ItemDryRun
    \/ CallUpload
    \/ XferChunk
    \/ TransferOk
    \/ TransferQuota
    \/ TransferFailed
    \/ AppendRecord
    \/ CleanupScan
    \/ CleanupDelete
    \/ Crash
    \/ ReaderLoad

Spec == Init /\ [][Next]_vars

\* a step of a command that is running: the process goes on to its next statement
RunStep ==
    \/ NothingNew
    \/ Allocate
    \/ GenEnter
    \/ GenAdvance
    \/ GenLoop
    \/ AllocRaised
    \/ AllocReturned
    \/ SaveWrite
    \/ SaveFlush
    \/ SaveReplace
    \/ ItemDryRun
    \/ CallUpload
    \/ XferChunk
    \/ TransferOk
    \/ TransferQuota
    \/ TransferFailed
    \/ AppendRecord
    \/ CleanupDelete

\* the prompts answered with a cadence generate_schedule_slots accepts
AllocateValid == Allocate /\ gen'.videos_per_day >= 1
\* next_chunk finishes the video
XferSucceeds == XferChunk /\ xfer'.pc = "returned"

\* the steps of Next that a run can see: everything but the reads of other
\* processes, which change lastRead alone
NextRepeated ==
    \/ PutFile
    \/ StartRun
    \/ RunStep
    \/ CleanupScan
    \/ Crash

\* the upload command run again and again: a running command takes its next
\* step, the command is started over and over, the prompts are answered with a
\* valid cadence over and over, and a transfer that is tried over and over
\* succeeds
SpecRepeated ==
    /\ Init
    /\ [][NextRepeated]_vars
    /\ WF_vars(RunStep)
    /\ SF_vars(StartRun)
    /\ SF_vars(AllocateValid)
    /\ SF_vars(XferSucceeds)

(***************************************************************************)
(* The allocator on its own: every call the argument sets below allow, and *)
(* after it a second call with the same arguments.                         *)
(***************************************************************************)
MaxCount == 3

\* 1 Jan 08:00Z, 09:00Z, 10:00Z; 31 Oct 12:00Z; 1 Nov 06:10Z (01:10 EST, the second
\* 01:10 of that night in New York); 8 Mar 06:10Z (01:10 EST, before the gap)
Starts == {At(0, 8, 0), At(0, 9, 0), At(0, 10, 0), At(303, 12, 0), At(304, 6, 10),
           At(66, 6, 10)}
Zones == {"UTC", "America/New_York", "Mars/Olympus"}
Cadences == {-1, 0, 1, 2, 7, 24, 86401}
DayStarts == {<<9, 0>>, <<1, 30>>, <<0, 30>>, <<24, 0>>}

\* timestamps a caller may hold as reserved: three that the calls above propose
\* and one they never do
ReservedPool == {IsoFormatZ(At(0, 9, 0)), IsoFormatZ(At(0, 21, 0)),
                 IsoFormatZ(At(304, 5, 30)), IsoFormatZ(At(0, 0, 7))}
\* 09:00Z of every day from 1 January on: more than a call for one slot examines
SaturatedDays == 25
SaturatedReserved == {IsoFormatZ(At(d, 9, 0)) : d \in 0..SaturatedDays}
ReservedArgs == {SetOf(r) : r \in (SUBSET ReservedPool) \cup {SaturatedReserved}} \cup {NoSet}

InitAlloc ==
    /\ disk = [f \in {ProjectPath, TmpPath(ProjectPath)} |->
                  IF f = ProjectPath THEN Whole(ToJson(NewProject)) ELSE NoFile]
    /\ dir = [n \in SeqToSet(FileNames) |-> NoContent]
    /\ remote = <<>>
    /\ proc = RunIdle
    /\ lastRead = "unread"
    /\ crashes = 0
    /\ prevCall = NoCall
    /\ xfer = XferIdle
    /\ \E start \in Starts, tz \in Zones, vpd \in Cadences, hhmm \in DayStarts,
          n \in 0..MaxCount, reserved \in ReservedArgs :
            gen = GenCall(start, tz, vpd, hhmm, n, reserved)

\* the same call made again: equal arguments, a reserved set with the contents
\* the first call was given
GenCallAgain ==
    /\ gen.pc \in {"done", "raised"}
    /\ ~prevCall.made
    /\ prevCall' = [made |-> TRUE, pc |-> gen.pc, out |-> gen.out, caller |-> gen.caller,
                    reserved_rfc3339 |-> gen.reserved_rfc3339, error |-> gen.error]
    /\ gen' = GenCall(gen.start_local_date, gen.timezone, gen.videos_per_day,
                      gen.day_start_hhmm, gen.count, gen.arg)
    /\ UNCHANGED <<disk, dir, remote, proc, lastRead, crashes, xfer>>

NextAlloc ==
    \/ GenEnter
    \/ GenAdvance
    \/ GenLoop
    \/ GenCallAgain

SpecAlloc == InitAlloc /\ [][NextAlloc]_vars

\* a call that is running runs on: the interpreter takes the next step of the
\* function whenever there is one.  A turn of a loop that changes nothing is no
\* step, so a loop that spins is a behaviour that never leaves its statement
SpecAllocFair ==
    /\ InitAlloc
    /\ [][NextAlloc]_vars
    /\ WF_vars(GenEnter)
    /\ WF_vars(GenAdvance)
    /\ WF_vars(GenLoop)

(***************************************************************************)
(* upload_video on its own: one call, for the retry parameters below, against *)
(* every sequence of answers of next_chunk.                                *)
(***************************************************************************)
RetryArgs == {0, 1, 2, 3, DefaultMaxRetries}
BaseDelays == {1, 2, 16}
\* the least and the greatest draw of random.random()
XferJitters == {0, JitterScale - 1}

InitXfer ==
    /\ disk = [f \in {ProjectPath, TmpPath(ProjectPath)} |->
                  IF f = ProjectPath THEN Whole(ToJson(NewProject)) ELSE NoFile]
    /\ dir = [n \in SeqToSet(FileNames) |-> NoContent]
    /\ remote = <<>>
    /\ proc = RunIdle
    /\ gen = GenIdle
    /\ lastRead = "unread"
    /\ crashes = 0
    /\ prevCall = NoCall
    /\ \E c \in Contents, max_retries \in RetryArgs, base_delay_s \in BaseDelays :
          xfer = XferCall(c, IsoFormatZ(At(1, 9, 0)), max_retries, base_delay_s,
                          ChunkErrors, XferJitters)

NextXfer == XferChunk

SpecXfer == InitXfer /\ [][NextXfer]_vars

(***************************************************************************)
(* Properties of the upload command and the project file (checked under    *)
(* Spec).                                                                  *)
(***************************************************************************)
\* the UploadRecords of the project file, and those of the running command
Ledger == disk[ProjectPath].data.uploaded
Saving == proc.pc \in {"save_write", "save_flush", "save_replace"}

SameIdentity(r, q) == r.file_sha256 = q.file_sha256 /\ r.file_size = q.file_size

\* C1: in every reachable ledger no two UploadRecords have the same (digest, size),
\* also when the directory holds several new files with the same bytes.
C1_UniqueIdentity ==
    \A i, j \in 1..Len(Ledger) : i # j => ~SameIdentity(Ledger[i], Ledger[j])

\* C2: across runs and interruptions each content (digest, size) is transferred to
\* completion at most once.
C2_TransferredAtMostOnce ==
    \A i, j \in 1..Len(remote) : i # j => ~SameIdentity(remote[i], remote[j])

\* C3: in every reachable ledger, on disk and in the running command, no two
\* UploadRecords have the same slot, whatever ended the runs and whatever cadence,
\* zone and day start each run was given.
C3_UniqueSlots ==
    \A led \in {Ledger, proc.p.uploaded} :
        \A i, j \in 1..Len(led) :
            i # j => led[i].scheduled_publish_at # led[j].scheduled_publish_at

\* two records written by two runs (a dry run, then a real one) on the same daily
\* schedule: the second run passed over the slot the first had taken
C3_Witness ==
    /\ Len(Ledger) = 2
    /\ Ledger[1].uploaded_video_id = DryRunId
    /\ Ledger[2].uploaded_video_id # DryRunId
    /\ Ledger[1].scheduled_publish_at = <<2026, 3, 8, 7, 20, 0>>
    /\ Ledger[2].scheduled_publish_at = <<2026, 3, 9, 7, 20, 0>>

\* C4: in every run mode, dry_run included, every UploadRecord of the persisted
\* ledger stands for a transfer of that file that returned a remote identifier.
C4_RecordsFollowTransfers ==
    \A i \in 1..Len(Ledger) :
        \E k \in 1..Len(remote) :
            /\ remote[k].id = Ledger[i].uploaded_video_id
            /\ SameIdentity(remote[k], Ledger[i])

\* C5: whatever step save_project is at, and after an interruption at any of them,
\* the project file reads as a whole document: the one it held when the save
\* began or the one being saved; no load_project ever met a partial one.
C5_AtomicPersist ==
    /\ load_project(disk[ProjectPath]) = "ok"
    /\ lastRead \in {"unread", "ok"}
    /\ Saving => disk[ProjectPath] \in {proc.save_prev, Whole(ToJson(proc.p))}

\* an interruption left a partly written temporary file whose document differs from
\* the project file, which holds a record and was read by another process
C5_Witness ==
    /\ crashes >= 1
    /\ proc.pc = "idle"
    /\ disk[TmpPath(ProjectPath)].exists
    /\ ~disk[TmpPath(ProjectPath)].complete
    /\ disk[TmpPath(ProjectPath)].data # disk[ProjectPath].data
    /\ Len(Ledger) >= 1
    /\ lastRead = "ok"

\* the run is past its scan of the directory
Scanned == proc.pc \notin {"idle", "ended", "cleanup_delete"}
\* the ledger as the run loaded it: the records before those this run appended
LoadedLedger == SubSeq(proc.p.uploaded, 1, Len(proc.p.uploaded) - proc.idx)
InBatch(n) == \E i \in 1..Len(proc.new_files) : proc.new_files[i] = n

\* C11: in every run, a scanned file is left out of the batch if and only if some
\* record of the loaded ledger has both its digest and its size, whatever the file
\* names are; so a file whose identity is in the ledger is left out by every run.
C11_DedupByIdentity ==
    Scanned =>
        \A n \in SeqToSet(FileNames) :
            proc.hashes[n] # NoContent =>
                (~InBatch(n) <=>
                    \E i \in 1..Len(LoadedLedger) :
                        /\ LoadedLedger[i].file_sha256 = proc.hashes[n].sha
                        /\ LoadedLedger[i].file_size = proc.hashes[n].size)

\* a scan left b.mp4 out on the strength of a record made for a.mp4, the only
\* record of the ledger
C11_Witness ==
    /\ proc.pc = "scanned"
    /\ Len(proc.p.uploaded) = 1
    /\ proc.p.uploaded[1].file_name = "a.mp4"
    /\ proc.hashes["b.mp4"].sha = proc.p.uploaded[1].file_sha256
    /\ proc.hashes["b.mp4"].size = proc.p.uploaded[1].file_size
    /\ ~InBatch("b.mp4")

\* the quota failure: the HttpError whose reason is uploadLimitExceeded
QuotaFailure(e) == e.raised /\ e.http /\ e.text = QuotaReason
\* the transfer of the current item has just ended with the error e of the frame
TransferEnded == proc.pc = "upload" /\ xfer.pc = "raised"
\* the command leaves in this step
RunEnds == proc.pc # "ended" /\ proc'.pc = "ended"

\* the ledger on disk is the loaded one followed by one record for each of the
\* first k files of the batch
RecordsOnDisk(k) ==
    /\ Len(Ledger) = Len(LoadedLedger) + k
    /\ SubSeq(Ledger, 1, Len(LoadedLedger)) = LoadedLedger
    /\ \A i \in 1..k :
        LET r == Ledger[Len(LoadedLedger) + i]
        IN /\ r.file_name = proc.new_files[i]
           /\ r.file_sha256 = proc.hashes[proc.new_files[i]].sha
           /\ r.file_size = proc.hashes[proc.new_files[i]].size

\* the same, each of the k records with a completed transfer of that content
PersistedThrough(k) ==
    /\ RecordsOnDisk(k)
    /\ \A i \in 1..k :
        LET r == Ledger[Len(LoadedLedger) + i]
        IN \E j \in 1..Len(remote) :
              remote[j].id = r.uploaded_video_id /\ SameIdentity(remote[j], r)

\* C15: when the transfer of an item ends with the quota failure, the persisted
\* ledger is the prior records plus one record for each earlier file of the batch
\* (all transferred), and the command then leaves with exit code 3 without
\* another transfer and without writing the project file again.
C15_QuotaStopsBatch ==
    [][(TransferEnded /\ QuotaFailure(xfer.error)) =>
          /\ PersistedThrough(proc.idx)
          /\ RunEnds => (proc'.exit = "3" /\ remote' = remote /\ disk' = disk)]_vars

\* a run of two files stopped with exit code 3 after its first file: one record,
\* one video on the remote side, the second file still in the directory
C15_Witness ==
    /\ proc.pc = "ended"
    /\ proc.exit = "3"
    /\ crashes = 0
    /\ Len(Ledger) = 1
    /\ Len(remote) = 1
    /\ Ledger[1].file_name = "a.mp4"
    /\ dir["b.mp4"] \notin {NoContent, dir["a.mp4"]}

\* C16: when the transfer of an item ends with a failure that is not the quota
\* failure, the persisted ledger is the one saved after the last successful item
\* (nothing for the failed file; slots and identities unique, the file whole), and
\* the command then leaves with that error, without another transfer and without
\* writing the project file again.
C16_FailurePropagates ==
    [][(TransferEnded /\ ~QuotaFailure(xfer.error)) =>
          /\ PersistedThrough(proc.idx)
          /\ \A i, j \in 1..Len(Ledger) :
                i # j => /\ Ledger[i].scheduled_publish_at # Ledger[j].scheduled_publish_at
                         /\ ~SameIdentity(Ledger[i], Ledger[j])
          /\ load_project(disk[ProjectPath]) = "ok"
          /\ RunEnds => (proc'.exit = "raise" /\ remote' = remote /\ disk' = disk)]_vars

\* the place of a file name in the sorted listing of the directory
RECURSIVE PlaceFrom(_, _)
PlaceFrom(n, i) == IF FileNames[i] = n THEN i ELSE PlaceFrom(n, i + 1)
Place(n) == PlaceFrom(n, 1)
\* the run holds the slots of its batch
Allotted == proc.pc \in {"save_write", "save_flush", "save_replace", "item", "upload", "append"}
\* the record this run appended for the i-th file of its batch
BatchRecord(i) == proc.p.uploaded[Len(LoadedLedger) + i]

\* C17: the batch is in file-name order, one allocation gives it one slot per file,
\* the i-th file is transferred with and recorded with the i-th slot, and no file
\* gets a later slot than a file after it in the batch.
C17_SlotsInFileOrder ==
    Allotted =>
        /\ Len(proc.slots) = Len(proc.new_files)
        /\ \A i, j \in 1..Len(proc.new_files) :
            i < j => /\ Place(proc.new_files[i]) < Place(proc.new_files[j])
                     /\ ~RfcLess(proc.slots[j], proc.slots[i])
        /\ \A i \in 1..proc.idx :
            /\ BatchRecord(i).file_name = proc.new_files[i]
            /\ BatchRecord(i).scheduled_publish_at = proc.slots[i]
        /\ (proc.pc = "upload" /\ xfer.pc # "idle") =>
              xfer.publish_at = proc.slots[proc.idx + 1]

\* the file n of the directory is deleted in this step
Deleted(n) == dir[n] # NoContent /\ dir'[n] = NoContent
\* some record carries the name, size and sha256 of the file n and the id of a
\* transfer of that content which the remote side completed
UploadedFor(n) ==
    \E i \in 1..Len(Ledger) :
        /\ Ledger[i].file_name = n
        /\ Ledger[i].file_sha256 = dir[n].sha
        /\ Ledger[i].file_size = dir[n].size
        /\ \E k \in 1..Len(remote) :
              remote[k].id = Ledger[i].uploaded_video_id /\ SameIdentity(remote[k], Ledger[i])

\* C18: a file leaves the directory only by a cleanup run without --dry-run, and
\* only when a record of a completed transfer has its name, size and sha256,
\* whatever upload and cleanup runs came before.
C18_CleanupDeletesUploaded ==
    [][\A n \in SeqToSet(FileNames) :
          Deleted(n) => (proc.pc = "cleanup_delete" /\ ~proc.dry_run /\ UploadedFor(n))]_vars

\* C19: persistence is per item.  Whenever the run is at an item boundary or
\* inside a transfer, the project file holds the records of all the files of the
\* batch handled so far; while a save is under way it holds all of them but, at
\* most, the one being saved.
C19_PersistedPerItem ==
    /\ proc.pc \in {"item", "upload", "append"} => RecordsOnDisk(proc.idx)
    /\ (Saving /\ proc.idx = 0) => RecordsOnDisk(0)
    /\ (Saving /\ proc.idx > 0) => (RecordsOnDisk(proc.idx - 1) \/ RecordsOnDisk(proc.idx))

\* the transfer of the second file of a batch is under way and the record of the
\* first is in the project file
C19_Witness ==
    /\ proc.pc = "upload"
    /\ xfer.pc = "request"
    /\ proc.idx = 1
    /\ Len(proc.new_files) = 2
    /\ Len(Ledger) = 1
    /\ Ledger[1].file_name = proc.new_files[1]

\* s is an initial segment of t
IsPrefix(s, t) == Len(s) <= Len(t) /\ SubSeq(t, 1, Len(s)) = s

\* C26: the records are append-only.  No step removes, reorders or changes a
\* record of the persisted ledger or of the ledger a run holds, the slot of the
\* record included, and a run starts from the persisted ledger: the ledger at the
\* start of a run is a prefix of the ledger at every later point, in that run and
\* in every later one
C26_AppendOnly ==
    [][/\ IsPrefix(Ledger, Ledger')
       /\ (Scanned /\ Scanned') => IsPrefix(proc.p.uploaded, proc'.p.uploaded)
       /\ (~Scanned /\ Scanned') => proc'.p.uploaded = Ledger
       /\ Scanned' => IsPrefix(Ledger', proc'.p.uploaded)]_vars

\* a later run that loaded a ledger of one record has appended a second one and
\* is about to put the two in place of the persisted one
C26_Witness ==
    /\ proc.pc = "save_replace"
    /\ proc.idx = 1
    /\ Len(LoadedLedger) = 1
    /\ Ledger = LoadedLedger
    /\ Len(proc.p.uploaded) = 2
    /\ disk[TmpPath(ProjectPath)] = Whole(ToJson(proc.p))

\* the reserved list of the project file, and the slots of its records in order
PersistedReserved == disk[ProjectPath].data.reserved_publish_times
LedgerSlots == [i \in 1..Len(Ledger) |-> Ledger[i].scheduled_publish_at]

\* C27: the persisted reserved list holds the slot of every persisted record and
\* never loses a value, however the runs end; it holds nothing else, so a slot
\* allocated for a batch that stopped before using it is not in the list
C27_ReservedFollowsLedger ==
    /\ [](PersistedReserved = LedgerSlots)
    /\ [][SeqToSet(PersistedReserved) \subseteq SeqToSet(PersistedReserved')]_vars

\* a batch of two with two slots allocated, stopping at the failure of its second
\* transfer: the first slot is persisted with its record, the second is not
C27_Witness ==
    /\ proc.pc = "upload"
    /\ xfer.pc = "raised"
    /\ proc.idx = 1
    /\ Len(proc.slots) = 2
    /\ Len(Ledger) = 1
    /\ PersistedReserved = <<proc.slots[1]>>
    /\ proc.slots[2] \notin SeqToSet(PersistedReserved)

\* a file of the directory whose identity no record of the persisted ledger has
Unrecorded(n) ==
    /\ dir[n] # NoContent
    /\ \A i \in 1..Len(Ledger) :
          ~(Ledger[i].file_sha256 = dir[n].sha /\ Ledger[i].file_size = dir[n].size)
\* the last command was interrupted, or was an upload run stopped by a failure
Stopped ==
    \/ proc.pc = "idle" /\ crashes > 0
    \/ proc.pc = "ended" /\ proc.exit \in {"3", "raise"}
\* the step that scans the directory for a new run
Scans == proc.pc \in {"idle", "ended"} /\ proc'.pc = "scanned"
\* the step that calls upload_video for the next file of the batch
Transfers == proc.pc = "item" /\ proc'.pc = "upload"

\* C28: the batch of the run that follows an interrupted or failed run is exactly
\* the files whose identity is not in the persisted ledger, each once, and each
\* transfer of a run starts from scratch (a new request, no failure counted, the
\* whole file); and when runs are repeated and transfers eventually succeed, from
\* some point on every file of the directory has a record in the persisted
\* ledger, so that a run finds nothing new to upload
C28_Resumption ==
    /\ [][/\ (Stopped /\ Scans) =>
              /\ SeqToSet(proc'.new_files) = {n \in SeqToSet(FileNames) : Unrecorded(n)}
              /\ Len(proc'.new_files) = Cardinality(SeqToSet(proc'.new_files))
          /\ Transfers =>
              /\ xfer'.pc = "request" /\ xfer'.attempt = 0 /\ xfer'.sleeps = <<>>
              /\ xfer'.sha = dir[proc.new_files[proc.idx + 1]].sha
              /\ xfer'.size = dir[proc.new_files[proc.idx + 1]].size]_vars
    /\ <>[](\A n \in SeqToSet(FileNames) : ~Unrecorded(n))

\* after an interrupted run, a run whose batch is the one file that has no
\* record, the other file being in the ledger, calls upload_video for it
C28_Witness ==
    /\ crashes > 0
    /\ proc.pc = "upload"
    /\ xfer.pc = "request" /\ xfer.attempt = 0
    /\ Len(Ledger) = 1
    /\ Len(proc.new_files) = 1
    /\ \A n \in SeqToSet(FileNames) : dir[n] # NoContent
    /\ Unrecorded(proc.new_files[1])

(***************************************************************************)
(* Properties of generate_schedule_slots (checked under SpecAlloc).        *)
(***************************************************************************)
Returned == gen.pc = "done"
OutSet == SeqToSet(gen.out)

\* C6: every list the allocator returns for videos_per_day >= 1 and count >= 0 has
\* exactly `count` elements, pairwise distinct, none of them in the reserved set as
\* it was passed in.
C6_CountDistinctUnreserved ==
    (Returned /\ gen.videos_per_day >= 1 /\ gen.count >= 0) =>
        /\ Len(gen.out) = gen.count
        /\ \A i, j \in 1..Len(gen.out) : i # j => gen.out[i] # gen.out[j]
        /\ \A i \in 1..Len(gen.out) : gen.out[i] \notin gen.arg.items

\* a call that returned two or more slots after passing over a reserved candidate
C6_Witness ==
    /\ Returned
    /\ gen.count >= 2
    /\ gen.safety > gen.count
    /\ gen.arg.items # {}

\* C7: after the allocator returns, the set object the caller passed holds every
\* returned slot and every value it held before the call, whatever set was passed
\* (an empty one included).
C7_CallerSetExtended ==
    (Returned /\ gen.arg.given) =>
        /\ OutSet \subseteq gen.caller
        /\ gen.arg.items \subseteq gen.caller

\* C8: every returned slot is an instant strictly later than the start instant of
\* the call.
C8_SlotsAfterStart ==
    Returned =>
        \A i \in 1..Len(gen.out) : RfcLess(IsoFormatZ(gen.start_local_date), gen.out[i])

\* The stride of C9, stated without the loops of the code.
Stride == SecondsPerDay \div gen.videos_per_day
StartWall == AsTimezone(gen.start_local_date, gen.timezone)
BaseWall ==
    (StartWall \div SecondsPerDay) * SecondsPerDay
        + gen.day_start_hhmm[1] * SecondsPerHour + gen.day_start_hhmm[2] * SecondsPerMinute
\* the least base + k * stride that is strictly greater than start
FirstAfter(base, start, stride) ==
    IF base > start \/ stride = 0 THEN base
    ELSE base + ((start - base) \div stride + 1) * stride
Tried == 0..(gen.count * SafetyFactor)

\* the sequence of instants c0, c0 + I, c0 + 2I, ...
InstantCandidate(k) ==
    IsoFormatZ(FirstAfter(ToUtc(BaseWall, gen.timezone), gen.start_local_date, Stride)
                   + k * Stride)
InstantFree(k) == InstantCandidate(k) \notin gen.arg.items

\* the sequence of local clock readings w0, w0 + I, w0 + 2I, ..., each rendered in UTC
WallCandidate(k) ==
    IsoFormatZ(ToUtc(FirstAfter(BaseWall, StartWall, Stride) + k * Stride, gen.timezone))
WallFree(k) ==
    /\ WallCandidate(k) \notin gen.arg.items
    /\ \A j \in 0..(k - 1) : WallCandidate(j) # WallCandidate(k)

C10_Deterministic ==
    (prevCall.made /\ prevCall.pc = "done" /\ gen.pc \in {"done", "raised"}) =>
        /\ gen.pc = "done"
        /\ gen.out = prevCall.out
        /\ gen.caller = prevCall.caller

\* the second of two calls returned two or more slots, once into the caller's own
\* set and once with nothing reserved
C10_Witness ==
    /\ prevCall.made
    /\ Returned
    /\ Len(gen.out) >= 2
    /\ gen.arg.given

\* the candidates a call may examine: the first count * 20 of its stride, as
\* instants; one is free when its timestamp is not reserved and no earlier
\* candidate is the same instant
Examinable == 0..(gen.count * SafetyFactor - 1)
FreeAmongExaminable ==
    LET w0 == FirstAfter(BaseWall, StartWall, Stride)
        instant == [k \in Examinable |-> ToUtc(w0 + k * Stride, gen.timezone)]
        reserved == IF gen.arg.items = {} THEN {}
                    ELSE {k \in Examinable : IsoFormatZ(instant[k]) \in gen.arg.items}
    IN Cardinality({k \in Examinable \ reserved :
                       \A j \in 0..(k - 1) : instant[j] # instant[k]})
Exhausted == gen.pc = "raised" /\ gen.error = "RuntimeError"

\* C20: the allocator never examines more than count * 20 candidates; it fails
\* with the exhaustion error exactly when it has examined count * 20 of them and
\* accepted fewer than `count`, which is exactly when fewer than `count` of the
\* first count * 20 candidates are free.
C20_ExhaustionBound ==
    /\ gen.pc \in {"loop", "done"} => gen.safety <= gen.count * SafetyFactor
    /\ Exhausted =>
        /\ gen.safety = gen.count * SafetyFactor + 1
        /\ Len(gen.out) < gen.count
        /\ FreeAmongExaminable < gen.count
    /\ (Returned /\ gen.count >= 1) => FreeAmongExaminable >= gen.count

\* a call for one slot that found the 20 candidates it may examine all reserved
C20_Witness ==
    /\ Exhausted
    /\ gen.count = 1
    /\ gen.arg.items = SaturatedReserved
    /\ gen.out = <<>>

\* a call in progress and a call that is over
GenRunning == gen.pc \in {"enter", "advance", "loop"}
GenOver == gen.pc \in {"done", "raised"}

\* C21: every call of generate_schedule_slots with videos_per_day >= 1 (any count
\* >= 0, start, reserved set) terminates, by returning or by raising: neither the
\* advance-until-after-start loop nor the acceptance loop runs forever
C21_Terminates ==
    (GenRunning /\ gen.videos_per_day >= 1 /\ gen.count >= 0) ~> GenOver

\* the error ZoneInfo(timezone) raises for a name that is no zone
InvalidTimezone == "ZoneInfoNotFoundError"

\* C22: a call with videos_per_day >= 1 and count >= 0 whose timezone name is no
\* real zone ends with the invalid-timezone error and returns no slots
C22_UnknownZoneFails ==
    (GenOver /\ gen.timezone \notin KnownZones /\ gen.videos_per_day >= 1
        /\ gen.count >= 0)
        => (gen.pc = "raised" /\ gen.error = InvalidTimezone /\ gen.out = <<>>)

\* the caller's reserved set holds what it held at the call
ReservedUntouched == gen.caller = gen.arg.items
\* no candidate slot was computed: the cursor was never set, no turn of the
\* acceptance loop ran
NoSlotComputed == gen.cursor = 0 /\ gen.safety = 0 /\ gen.out = <<>>

\* C23: degenerate inputs leave the reserved set as it was: videos_per_day <= 0
\* ends in the invalid-cadence ValueError for every count, 0 included, before any
\* slot is computed; count = 0 with videos_per_day >= 1 returns the empty list
C23_DegenerateInputs ==
    GenOver =>
        /\ gen.videos_per_day <= 0 =>
              (gen.pc = "raised" /\ gen.error = "ValueError" /\ NoSlotComputed
                  /\ ReservedUntouched)
        /\ (gen.videos_per_day >= 1 /\ gen.count = 0) =>
              (gen.pc = "done" /\ gen.out = <<>> /\ NoSlotComputed /\ ReservedUntouched)

\* a call for no slots, with a reserved set of the caller's, has returned
C23_Witness ==
    /\ gen.pc = "done"
    /\ gen.count = 0
    /\ gen.videos_per_day >= 1
    /\ gen.arg.given /\ gen.arg.items # {}
    /\ gen.caller = gen.arg.items

(***************************************************************************)
(* Properties of upload_video (checked under SpecXfer).                    *)
(***************************************************************************)
\* a failure of the transient class: an HttpError whose status is in the retriable set
TransientFailure(e) == e.raised /\ e.http /\ e.status \in {429, 500, 502, 503, 504}
XferRunning == xfer.pc = "request"
XferLeft == xfer.pc \in {"returned", "raised"}

\* C12: whatever next_chunk answers, one call sleeps and retries at most
\* max_retries times in total; a transient failure met when max_retries retries
\* are used leaves the call as the error raised, after max_retries sleeps and
\* with no request after it.
C12_BoundedRetries ==
    /\ (XferRunning \/ XferLeft) => Len(xfer.sleeps) <= xfer.max_retries
    /\ XferRunning => xfer.attempt <= xfer.max_retries
    /\ (xfer.pc = "raised" /\ TransientFailure(xfer.error)) =>
        /\ xfer.attempt = xfer.max_retries + 1
        /\ Len(xfer.sleeps) = xfer.max_retries

\* a call with the default max_retries left by a transient error after 8 sleeps
C12_Witness ==
    /\ xfer.pc = "raised"
    /\ TransientFailure(xfer.error)
    /\ xfer.max_retries = DefaultMaxRetries
    /\ Len(xfer.sleeps) = DefaultMaxRetries

\* C13: a failure outside the transient class (an HttpError whose status is not
\* in the retriable set, or an exception that is no HttpError) leaves the call the
\* first time it occurs, as the error raised: no request is made after it and no
\* delay is slept for it, however many retries are left.
C13_NonTransientEndsCall ==
    /\ XferRunning => (xfer.error = NoError \/ TransientFailure(xfer.error))
    /\ (xfer.pc = "raised" /\ ~TransientFailure(xfer.error)) =>
        Len(xfer.sleeps) = IF xfer.error.http THEN xfer.attempt - 1 ELSE xfer.attempt

\* a call with the default max_retries left by a 403 after two retries, six unused
C13_Witness ==
    /\ xfer.pc = "raised"
    /\ xfer.error = HttpError(403, "other")
    /\ xfer.max_retries = DefaultMaxRetries
    /\ xfer.attempt = 3
    /\ Len(xfer.sleeps) = 2

\* C14: a failure that names uploadLimitExceeded is never retried, whatever status
\* it carries: no call is still running after one.
C14_QuotaNeverRetried ==
    XferRunning => xfer.error.text # QuotaReason

\* a failure with status 429 or any status of the 5xx class
ThrottledOrServerError(e) == e.raised /\ e.http /\ (e.status = 429 \/ e.status \in 500..599)

\* C24: every chunk failure with status 429 or any 5xx status is retried after a
\* backoff sleep while fewer than max_retries retries are used: such a failure
\* leaves the call only when max_retries delays were slept, and every failure a
\* running call has counted was followed by one sleep
C24_ServerErrorsRetried ==
    /\ XferRunning => Len(xfer.sleeps) = xfer.attempt
    /\ (xfer.pc = "raised" /\ ThrottledOrServerError(xfer.error)) =>
        Len(xfer.sleeps) = xfer.max_retries


\* min(base_delay * 2^(k-1), 60), the deterministic part of the k-th backoff
CappedDoubling(base_delay, k) ==
    IF base_delay * (2 ^ (k - 1)) < 60 THEN base_delay * (2 ^ (k - 1)) ELSE 60

\* C25: the delay slept before the k-th retry is min(base_delay_s * 2^(k-1), 60)
\* seconds plus a jitter of [0, 1); the deterministic part never exceeds 60 and
\* never decreases from one retry to the next; a call that returns the remote id
\* after m transient failures has slept exactly m times, m <= max_retries
C25_BackoffSchedule ==
    /\ \A k \in 1..Len(xfer.sleeps) :
          /\ xfer.sleeps[k].backoff = CappedDoubling(xfer.base_delay_s, k)
          /\ xfer.sleeps[k].backoff <= 60
          /\ xfer.sleeps[k].jitter \in Jitter
          /\ k > 1 => xfer.sleeps[k - 1].backoff <= xfer.sleeps[k].backoff
    /\ xfer.pc = "returned" =>
          /\ Len(xfer.sleeps) = xfer.attempt
          /\ xfer.attempt <= xfer.max_retries
          /\ xfer.response = remote[Len(remote)].id
          /\ xfer.error \in {NoError} \cup {e \in xfer.faults : TransientFailure(e)}

\* 429 on attempts 1 to 3, success on the fourth: the id returned after three
\* sleeps of 16, 32 and 60 seconds, the last one with the greatest jitter
C25_Witness ==
    /\ xfer.pc = "returned"
    /\ xfer.error = HttpError(429, "other")
    /\ xfer.attempt = 3
    /\ Len(xfer.sleeps) = 3
    /\ xfer.sleeps[1].backoff = 16 /\ xfer.sleeps[2].backoff = 32
    /\ xfer.sleeps[3] = Sleep(60, JitterScale - 1)

=============================================================================
